---- MODULE Spec2Model ----
(***************************************************************************)
(* Traffic Lights page (pages/TrafficLights.js): the intersection list,    *)
(* the edit dialog's draft, the derived phases shown on each card and the  *)
(* auto-refresh effect with its timers.                                    *)
(* Violations page (pages/Violations.js): the fetched rows, the search     *)
(* box, the type and status filters and the table's pagination.            *)
(***************************************************************************)
EXTENDS Integers, Sequences, FiniteSets, TLC

VARIABLES
    intersections,    \* useState([])    : the committed list
    loading,          \* useState(true)
    editDialogOpen,   \* useState(false)
    editData,         \* useState(null)  : the draft (NullData models null)
    autoRefresh,      \* useState(true)
    searchTerm,       \* useState('')   : the search box, as a sequence of characters
    view,             \* "init" (rendered, effect not yet run), "mounted", "unmounted"
    interval,         \* the effect closure's `let interval`: "undefined" or "set"
    scheduled,        \* number of recurring timers setInterval has scheduled and clearInterval has not cleared
    pending,          \* number of setTimeout(..., 500) callbacks of fetchData not yet run
    nEdits,           \* number of draft edits made so far (bounds the exploration)
    lastOp,           \* name of the handler or callback that ran last
    lastArgs,         \* the arguments of the last handler that took any
    violations,           \* Violations: useState([])  : the fetched rows
    violationsLoading,    \* Violations: useState(true) : its loading flag
    page,                 \* Violations: useState(0)
    rowsPerPage,          \* Violations: useState(10)
    violationsSearchTerm, \* Violations: useState('')   : its search box, as a sequence of characters
    filters,              \* Violations: useState({ type: 'all', status: 'all' })
    violationsPending,    \* number of setTimeout(..., 500) callbacks of fetchViolations not yet run
    served,               \* number of rows the fetch delivers (those of mockViolations in the source)
    violationsView        \* Violations: "init" (rendered, effect not yet run) or "mounted"

\* State of the Traffic Lights page.
trafficVars == <<intersections, loading, editDialogOpen, editData, autoRefresh, searchTerm,
                 view, interval, scheduled, pending, nEdits>>

\* State of the Violations page.
violationsVars == <<violations, violationsLoading, page, rowsPerPage, violationsSearchTerm,
                    filters, violationsPending, served, violationsView>>

vars == <<trafficVars, lastOp, lastArgs, violationsVars>>

-----------------------------------------------------------------------------
(* Bounds *)

MaxEdits   == 2   \* draft edits (phase or status changes) explored per session
MaxPending == 2   \* fetch completions that may be outstanding at once
MaxPhases  == 3   \* longest phase sequence drawn as an input of the handlers
MaxList    == 2   \* longest committed list drawn as an input of handleSave
MaxRows    == 11  \* most rows the violations fetch is drawn to deliver

-----------------------------------------------------------------------------
(* Data *)

Status == {"active", "inactive", "maintenance"}
Color  == {"red", "yellow", "green"}

Phase(id, name, duration, active, color) ==
    [id |-> id, name |-> name, duration |-> duration, active |-> active, color |-> color]

mockIntersections ==
    << [id |-> "int-001", name |-> "MG Road & Brigade Road", status |-> "active",
        lastUpdated |-> "2023-06-15T10:30:00",
        phases |-> << Phase("north-south", "North-South", 45, TRUE, "green"),
                      Phase("east-west", "East-West", 40, FALSE, "red"),
                      Phase("pedestrian", "Pedestrian", 20, FALSE, "red") >>,
        vehicleCount |-> 124, avgWaitTime |-> 45],
       [id |-> "int-002", name |-> "Indiranagar 100ft Road", status |-> "active",
        lastUpdated |-> "2023-06-15T10:32:15",
        phases |-> << Phase("north-south", "North-South", 60, TRUE, "green"),
                      Phase("east-west", "East-West", 50, FALSE, "red") >>,
        vehicleCount |-> 89, avgWaitTime |-> 30],
       [id |-> "int-003", name |-> "Outer Ring Road & Marathahalli", status |-> "maintenance",
        lastUpdated |-> "2023-06-15T09:15:00",
        phases |-> << Phase("north-south", "North-South", 30, FALSE, "yellow"),
                      Phase("east-west", "East-West", 30, FALSE, "yellow") >>,
        vehicleCount |-> 0, avgWaitTime |-> 0],
       [id |-> "int-004", name |-> "Koramangala 80ft Road", status |-> "inactive",
        lastUpdated |-> "2023-06-14T22:10:00",
        phases |-> << Phase("north-south", "North-South", 40, FALSE, "red"),
                      Phase("east-west", "East-West", 40, TRUE, "green") >>,
        vehicleCount |-> 0, avgWaitTime |-> 0] >>

\* useState(null) for editData: a record no intersection equals.
NullData ==
    [id |-> "null", name |-> "null", status |-> "null", lastUpdated |-> "null",
     phases |-> << >>, vehicleCount |-> 0, avgWaitTime |-> 0]

NoArgs == [phaseId |-> "", field |-> "", value |-> "", index |-> 0]

\* Value the duration Slider (min 5, max 120, step 5) reports at its minimum.
SliderValues == {5}
\* Values the number TextField reports: parseInt(e.target.value) || 0.
TextFieldValues == {0, 5}

-----------------------------------------------------------------------------
(* Array helpers of the handlers *)

\* Array.prototype.findIndex, 0-based, -1 when no element matches.
RECURSIVE findIndexFrom(_, _)
findIndexFrom(phases, i) ==
    IF i > Len(phases) THEN -1
    ELSE IF phases[i].active THEN i - 1
    ELSE findIndexFrom(phases, i + 1)

findIndex(phases) == findIndexFrom(phases, 1)

-----------------------------------------------------------------------------
(* Handlers as functions of their inputs *)

\* handleSave with the id test inverted.
SaveListInverted(list, draft) ==
    LET F(int) == IF int.id # draft.id THEN draft ELSE int
    IN  [i \in 1..Len(list) |-> F(list[i])]

\* handleSave as an upsert: a draft the list does not hold is appended.
SaveListUpsert(list, draft) ==
    LET F(int) == IF int.id = draft.id THEN draft ELSE int
    IN  IF \E i \in 1..Len(list) : list[i].id = draft.id
        THEN [i \in 1..Len(list) |-> F(list[i])]
        ELSE Append(list, draft)

\* handleSave: intersections.map(int => int.id === editData.id ? {...editData} : int)
SaveList(list, draft) ==
    LET F(int) == IF int.id = draft.id THEN draft ELSE int
    IN  [i \in 1..Len(list) |-> F(list[i])]

\* handlePhaseChange without the id test: every phase gets the field.
PhaseChangeAll(prev, phaseId, field, value) ==
    LET F(phase) == [phase EXCEPT ![field] = value]
    IN  [prev EXCEPT !.phases = [i \in 1..Len(prev.phases) |-> F(prev.phases[i])]]

\* handlePhaseChange with filter in place of map: the other phases are lost.
PhaseChangeFilter(prev, phaseId, field, value) ==
    LET Test(phase) == phase.id = phaseId
        F(phase) == [phase EXCEPT ![field] = value]
        kept == SelectSeq(prev.phases, Test)
    IN  [prev EXCEPT !.phases = [i \in 1..Len(kept) |-> F(kept[i])]]

\* handlePhaseChange: prev => ({...prev, phases: prev.phases.map(...)})
PhaseChange(prev, phaseId, field, value) ==
    LET F(phase) == IF phase.id = phaseId THEN [phase EXCEPT ![field] = value] ELSE phase
    IN  [prev EXCEPT !.phases = [i \in 1..Len(prev.phases) |-> F(prev.phases[i])]]

\* handleStatusChange as an incremental patch: colours are recomputed only
\* when the new status is active.
StatusChangePatch(prev, status) ==
    LET F(phase) == [phase EXCEPT !.color =
                        IF status = "active"
                        THEN (IF phase.active THEN "green" ELSE "red")
                        ELSE phase.color]
    IN  [prev EXCEPT !.status = status,
                     !.phases = [i \in 1..Len(prev.phases) |-> F(prev.phases[i])]]

\* handleStatusChange that takes the status for the phase's active flag.
StatusChangeActivates(prev, status) ==
    LET F(phase) == [phase EXCEPT !.active = (status = "active"),
                                  !.color = IF status = "active" THEN "green" ELSE "yellow"]
    IN  [prev EXCEPT !.status = status,
                     !.phases = [i \in 1..Len(prev.phases) |-> F(prev.phases[i])]]

\* handleStatusChange that also stamps the draft's lastUpdated.
StatusChangeStamps(prev, status) ==
    LET F(phase) == [phase EXCEPT !.color =
                        IF status = "active"
                        THEN (IF phase.active THEN "green" ELSE "red")
                        ELSE "yellow"]
    IN  [prev EXCEPT !.status = status, !.lastUpdated = "now",
                     !.phases = [i \in 1..Len(prev.phases) |-> F(prev.phases[i])]]

\* handleStatusChange: prev => ({...prev, status, phases: prev.phases.map(...)})
StatusChange(prev, status) ==
    LET F(phase) == [phase EXCEPT !.color =
                        IF status = "active"
                        THEN (IF phase.active THEN "green" ELSE "red")
                        ELSE "yellow"]
    IN  [prev EXCEPT !.status = status,
                     !.phases = [i \in 1..Len(prev.phases) |-> F(prev.phases[i])]]

\* getActivePhase without the search: always the head of the sequence.
getActivePhaseHead(phases) == phases[1]

\* getActivePhase: phases.find(phase => phase.active) || phases[0]
getActivePhase(phases) ==
    LET i == findIndex(phases)
    IN  IF i # -1 THEN phases[i + 1] ELSE phases[1]

\* getNextPhase without the wrap-around: the index is clamped to the end.
getNextPhaseClamped(phases) ==
    LET activeIndex == findIndex(phases)
    IN  phases[(IF activeIndex + 1 >= Len(phases) THEN Len(phases) - 1 ELSE activeIndex + 1) + 1]

\* getNextPhase: phases[(activeIndex + 1) % phases.length]
getNextPhase(phases) ==
    LET activeIndex == findIndex(phases)
    IN  phases[((activeIndex + 1) % Len(phases)) + 1]

-----------------------------------------------------------------------------
(* Data of the Violations page *)

Violation(id, type, licensePlate, location, timestamp, status, speed) ==
    [id |-> id, type |-> type, licensePlate |-> licensePlate, location |-> location,
     timestamp |-> timestamp, status |-> status,
     imageUrl |-> "https://via.placeholder.com/150", speed |-> speed]

mockViolations ==
    << Violation(1, "no_helmet", "KA01AB1234", "MG Road, Downtown",
                 "2023-06-15T09:23:17", "pending", 45),
       Violation(2, "no_seatbelt", "KA02CD5678", "Brigade Road",
                 "2023-06-15T10:15:42", "processed", 52),
       Violation(3, "triple_riding", "KA03EF9012", "Indiranagar 100ft Road",
                 "2023-06-15T11:07:33", "pending", 48),
       Violation(4, "wrong_way", "KA04GH3456", "Outer Ring Road",
                 "2023-06-15T12:45:21", "rejected", 67),
       Violation(5, "no_helmet", "KA05IJ7890", "Koramangala 80ft Road",
                 "2023-06-15T14:22:10", "processed", 55) >>

\* The values of violationTypes and of statusOptions.
violationTypes == {"all", "no_helmet", "no_seatbelt", "triple_riding", "wrong_way"}
statusOptions  == {"all", "pending", "processed", "rejected"}

\* rowsPerPageOptions={[5, 10, 25]}, as the decimal text the select reports.
rowsPerPageOptions == << <<"5">>, <<"1", "0">>, <<"2", "5">> >>

\* A response of n rows: the mock rows, repeated under fresh ids when n
\* exceeds their number.  ViolationRows(5) is mockViolations.
ViolationRows(n) ==
    [k \in 1..n |->
        [mockViolations[((k - 1) % Len(mockViolations)) + 1] EXCEPT !.id = k]]

\* The useState initial values of the Violations page.
ViolationsUseState ==
    /\ violations = << >>
    /\ violationsLoading = TRUE
    /\ page = 0
    /\ rowsPerPage = 10
    /\ violationsSearchTerm = << >>
    /\ filters = [type |-> "all", status |-> "all"]
    /\ violationsPending = 0
    /\ violationsView = "init"

\* The Violations page after construction, before its effect has run.
ViolationsConstructed ==
    /\ ViolationsUseState
    /\ served = Len(mockViolations)

-----------------------------------------------------------------------------
(* Strings of the search filter, as sequences of characters *)

\* The characters of the names and ids of the mock intersections and of the
\* license plates and locations of the mock violations.
Chars ==
    ("MG Road & Brigade Road" :> <<"M", "G", " ", "R", "o", "a", "d", " ", "&", " ", "B", "r", "i", "g", "a", "d", "e", " ", "R", "o", "a", "d">>) @@
    ("Indiranagar 100ft Road" :> <<"I", "n", "d", "i", "r", "a", "n", "a", "g", "a", "r", " ", "1", "0", "0", "f", "t", " ", "R", "o", "a", "d">>) @@
    ("Outer Ring Road & Marathahalli" :> <<"O", "u", "t", "e", "r", " ", "R", "i", "n", "g", " ", "R", "o", "a", "d", " ", "&", " ", "M", "a", "r", "a", "t", "h", "a", "h", "a", "l", "l", "i">>) @@
    ("Koramangala 80ft Road" :> <<"K", "o", "r", "a", "m", "a", "n", "g", "a", "l", "a", " ", "8", "0", "f", "t", " ", "R", "o", "a", "d">>) @@
    ("int-001" :> <<"i", "n", "t", "-", "0", "0", "1">>) @@
    ("int-002" :> <<"i", "n", "t", "-", "0", "0", "2">>) @@
    ("int-003" :> <<"i", "n", "t", "-", "0", "0", "3">>) @@
    ("int-004" :> <<"i", "n", "t", "-", "0", "0", "4">>) @@
    ("KA01AB1234" :> <<"K", "A", "0", "1", "A", "B", "1", "2", "3", "4">>) @@
    ("KA02CD5678" :> <<"K", "A", "0", "2", "C", "D", "5", "6", "7", "8">>) @@
    ("KA03EF9012" :> <<"K", "A", "0", "3", "E", "F", "9", "0", "1", "2">>) @@
    ("KA04GH3456" :> <<"K", "A", "0", "4", "G", "H", "3", "4", "5", "6">>) @@
    ("KA05IJ7890" :> <<"K", "A", "0", "5", "I", "J", "7", "8", "9", "0">>) @@
    ("MG Road, Downtown" :> <<"M", "G", " ", "R", "o", "a", "d", ",", " ", "D", "o", "w", "n", "t", "o", "w", "n">>) @@
    ("Brigade Road" :> <<"B", "r", "i", "g", "a", "d", "e", " ", "R", "o", "a", "d">>) @@
    ("Outer Ring Road" :> <<"O", "u", "t", "e", "r", " ", "R", "i", "n", "g", " ", "R", "o", "a", "d">>)

UpperCase == <<"A", "B", "C", "D", "E", "F", "G", "H", "I", "J", "K", "L", "M",
               "N", "O", "P", "Q", "R", "S", "T", "U", "V", "W", "X", "Y", "Z">>
LowerCase == <<"a", "b", "c", "d", "e", "f", "g", "h", "i", "j", "k", "l", "m",
               "n", "o", "p", "q", "r", "s", "t", "u", "v", "w", "x", "y", "z">>

\* Characters other than letters that the names, ids and search strings hold.
OtherChars == {" ", "&", "-", ",", "0", "1", "2", "3", "4", "5", "6", "7", "8", "9"}

\* toLowerCase on one character.
toLowerChar ==
    [c \in {UpperCase[u] : u \in 1..Len(UpperCase)}
              \cup {LowerCase[u] : u \in 1..Len(LowerCase)} \cup OtherChars |->
        IF \E u \in 1..Len(UpperCase) : UpperCase[u] = c
        THEN LowerCase[CHOOSE u \in 1..Len(UpperCase) : UpperCase[u] = c]
        ELSE c]

\* String.prototype.toLowerCase
toLowerCase(str) == [k \in 1..Len(str) |-> toLowerChar[str[k]]]

\* String.prototype.includes
includes(str, sub) ==
    \E off \in 0..(Len(str) - Len(sub)) : SubSeq(str, off + 1, off + Len(sub)) = sub

\* Strings typed into the search box.
SearchTerms ==
    { << >>,
      <<"i", "n", "d", "i", "r", "a">>,
      <<"I", "N", "D", "I", "R", "A">>,
      <<"R", "o", "a", "d">>,
      <<"r", "o", "a", "d", " ", "&">>,
      <<"i", "n", "t", "-", "0", "0">>,
      <<"I", "N", "T", "-", "0", "0", "3">>,
      <<"0", "f", "t">>,
      <<"x", "y", "z">> }

\* The filter with the case folding left out.
MatchesSearchCaseSensitive(intersection, term) ==
    includes(Chars[intersection.name], term) \/ includes(Chars[intersection.id], term)

\* The predicate of filteredIntersections:
\* name.toLowerCase().includes(searchTerm.toLowerCase()) || id.toLowerCase().includes(...)
MatchesSearch(intersection, term) ==
    includes(toLowerCase(Chars[intersection.name]), toLowerCase(term))
        \/ includes(toLowerCase(Chars[intersection.id]), toLowerCase(term))

\* filteredIntersections = intersections.filter(...)
Filter(list, term) ==
    LET Test(intersection) == MatchesSearch(intersection, term)
    IN  SelectSeq(list, Test)

filteredIntersections == Filter(intersections, searchTerm)

\* getTotalCycleTime that leaves the first phase out of the sum.
RECURSIVE getTotalCycleTimeSkipFirst(_)
getTotalCycleTimeSkipFirst(phases) ==
    IF Len(phases) <= 1 THEN 0
    ELSE getTotalCycleTimeSkipFirst(SubSeq(phases, 1, Len(phases) - 1))
            + phases[Len(phases)].duration

\* getTotalCycleTime: phases.reduce((total, phase) => total + phase.duration, 0)
RECURSIVE getTotalCycleTime(_)
getTotalCycleTime(phases) ==
    IF phases = << >> THEN 0
    ELSE getTotalCycleTime(SubSeq(phases, 1, Len(phases) - 1))
            + phases[Len(phases)].duration

-----------------------------------------------------------------------------
(* Functions of the Violations page *)

DigitValue ==
    ("0" :> 0) @@ ("1" :> 1) @@ ("2" :> 2) @@ ("3" :> 3) @@ ("4" :> 4) @@
    ("5" :> 5) @@ ("6" :> 6) @@ ("7" :> 7) @@ ("8" :> 8) @@ ("9" :> 9)

\* parseInt(str, 10) on a non-empty string of decimal digits.
RECURSIVE parseInt(_)
parseInt(str) ==
    IF str = << >> THEN 0
    ELSE 10 * parseInt(SubSeq(str, 1, Len(str) - 1)) + DigitValue[str[Len(str)]]

\* Strings typed into the search box of the Violations page.
ViolationSearchTerms ==
    { << >>,
      <<"R", "I", "N", "G">>,
      <<"b", "1">>,
      <<"0", "f", "t">>,
      <<"x", "y", "z">> }

\* licensePlate.toLowerCase().includes(searchTerm.toLowerCase()), and the
\* same for location, tabulated for the strings of the rows and the strings
\* typed.
matchesSearchOf ==
    [str \in {mockViolations[k].licensePlate : k \in 1..Len(mockViolations)}
                \cup {mockViolations[k].location : k \in 1..Len(mockViolations)},
     term \in ViolationSearchTerms |->
        includes(toLowerCase(Chars[str]), toLowerCase(term))] @@ << >>

\* The filter with either of the two select filters sufficing.
MatchesViolationEitherFilter(violation, term, f) ==
    LET matchesSearch ==
            \/ matchesSearchOf[violation.licensePlate, term]
            \/ matchesSearchOf[violation.location, term]
        matchesType == f.type = "all" \/ violation.type = f.type
        matchesStatus == f.status = "all" \/ violation.status = f.status
    IN  matchesSearch /\ (matchesType \/ matchesStatus)

\* The predicate of filteredViolations:
\* matchesSearch && matchesType && matchesStatus
MatchesViolation(violation, term, f) ==
    LET matchesSearch ==
            \/ matchesSearchOf[violation.licensePlate, term]
            \/ matchesSearchOf[violation.location, term]
        matchesType == f.type = "all" \/ violation.type = f.type
        matchesStatus == f.status = "all" \/ violation.status = f.status
    IN  matchesSearch /\ matchesType /\ matchesStatus

\* violations.filter(...)
FilterViolations(list, term, f) ==
    LET Test(violation) == MatchesViolation(violation, term, f)
    IN  SelectSeq(list, Test)

filteredViolations == FilterViolations(violations, violationsSearchTerm, filters)

-----------------------------------------------------------------------------
(* The view: effect, timers and event handlers *)

Init ==
    /\ intersections = << >>
    /\ loading = TRUE
    /\ editDialogOpen = FALSE
    /\ editData = NullData
    /\ autoRefresh = TRUE
    /\ searchTerm = << >>
    /\ view = "init"
    /\ interval = "undefined"
    /\ scheduled = 0
    /\ pending = 0
    /\ nEdits = 0
    /\ lastOp = "construct"
    /\ lastArgs = NoArgs
    /\ ViolationsConstructed

\* Body of the effect, run with the value `auto` of autoRefresh, on a timer
\* table holding `sched` recurring timers:
\* fetchData(); let interval; if (autoRefresh) interval = setInterval(...)
EffectBody(auto, sched) ==
    /\ loading' = TRUE
    /\ pending' = pending + 1
    /\ interval' = IF auto THEN "set" ELSE "undefined"
    /\ scheduled' = IF auto THEN sched + 1 ELSE sched

\* A cleanup that does not clear the timer.
CleanupNothing == scheduled

\* The effect's cleanup, () => clearInterval(interval): the number of
\* recurring timers left.
Cleanup == IF interval = "set" THEN scheduled - 1 ELSE scheduled

\* First run of useEffect after the first render.
Mount ==
    /\ view = "init"
    /\ view' = "mounted"
    /\ EffectBody(autoRefresh, scheduled)
    /\ lastOp' = "Mount"
    /\ UNCHANGED violationsVars
    /\ lastArgs' = NoArgs
    /\ UNCHANGED <<searchTerm, intersections, editDialogOpen, editData, autoRefresh, nEdits>>

\* Switch onChange: setAutoRefresh(e.target.checked); the dependency
\* [autoRefresh] changed, so React runs the cleanup and then the effect again.
ToggleAutoRefresh ==
    /\ view = "mounted"
    /\ pending < MaxPending
    /\ autoRefresh' = ~autoRefresh
    /\ EffectBody(~autoRefresh, Cleanup)
    /\ lastOp' = "ToggleAutoRefresh"
    /\ UNCHANGED violationsVars
    /\ lastArgs' = NoArgs
    /\ UNCHANGED <<searchTerm, intersections, editDialogOpen, editData, view, nEdits>>

\* The recurring timer fires: fetchData()
Tick ==
    /\ scheduled > 0
    /\ pending < MaxPending
    /\ loading' = TRUE
    /\ pending' = pending + 1
    /\ lastOp' = "Tick"
    /\ UNCHANGED violationsVars
    /\ lastArgs' = NoArgs
    /\ UNCHANGED <<searchTerm, intersections, editDialogOpen, editData, autoRefresh, view,
                   interval, scheduled, nEdits>>

\* A completion that writes only when no later fetch is outstanding.
FetchDoneLatestOnly ==
    /\ pending > 0
    /\ pending' = pending - 1
    /\ IF view = "mounted" /\ pending = 1
       THEN intersections' = mockIntersections /\ loading' = FALSE
       ELSE UNCHANGED <<intersections, loading>>
    /\ lastOp' = "FetchDone"
    /\ UNCHANGED violationsVars
    /\ lastArgs' = NoArgs
    /\ UNCHANGED <<searchTerm, editDialogOpen, editData, autoRefresh, view, interval,
                   scheduled, nEdits>>

\* The setTimeout callback of fetchData runs:
\* setIntersections(mockIntersections); setLoading(false).
\* A state update on an unmounted component is dropped by React.
FetchDone ==
    /\ pending > 0
    /\ pending' = pending - 1
    /\ IF view = "mounted"
       THEN intersections' = mockIntersections /\ loading' = FALSE
       ELSE UNCHANGED <<intersections, loading>>
    /\ lastOp' = "FetchDone"
    /\ UNCHANGED violationsVars
    /\ lastArgs' = NoArgs
    /\ UNCHANGED <<searchTerm, editDialogOpen, editData, autoRefresh, view, interval,
                   scheduled, nEdits>>

\* The view is torn down: React runs the effect's cleanup.
Unmount ==
    /\ view = "mounted"
    /\ view' = "unmounted"
    /\ scheduled' = Cleanup
    /\ lastOp' = "Unmount"
    /\ UNCHANGED violationsVars
    /\ lastArgs' = NoArgs
    /\ UNCHANGED <<searchTerm, intersections, loading, editDialogOpen, editData, autoRefresh,
                   interval, pending, nEdits>>

\* handleEdit that keeps an earlier draft of the same intersection.
handleEditKeepsDraft(i) ==
    /\ view = "mounted"
    /\ ~loading
    /\ ~editDialogOpen
    /\ i \in 1..Len(intersections)
    /\ editData' = IF editData.id = intersections[i].id THEN editData ELSE intersections[i]
    /\ editDialogOpen' = TRUE
    /\ lastOp' = "handleEdit"
    /\ UNCHANGED violationsVars
    /\ lastArgs' = [NoArgs EXCEPT !.index = i]
    /\ UNCHANGED <<searchTerm, intersections, loading, autoRefresh, view, interval,
                   scheduled, pending, nEdits>>

\* handleEdit(intersection), from a card of filteredIntersections; cards are
\* rendered only when loading is false, and the open dialog is modal.
handleEdit(i) ==
    /\ view = "mounted"
    /\ ~loading
    /\ ~editDialogOpen
    /\ i \in 1..Len(intersections)
    /\ MatchesSearch(intersections[i], searchTerm) = TRUE
    /\ editData' = intersections[i]
    /\ editDialogOpen' = TRUE
    /\ lastOp' = "handleEdit"
    /\ UNCHANGED violationsVars
    /\ lastArgs' = [NoArgs EXCEPT !.index = i]
    /\ UNCHANGED <<searchTerm, intersections, loading, autoRefresh, view, interval,
                   scheduled, pending, nEdits>>

\* handleSearch: setSearchTerm(event.target.value)
handleSearch(term) ==
    /\ view = "mounted"
    /\ ~editDialogOpen
    /\ term # searchTerm
    /\ searchTerm' = term
    /\ lastOp' = "handleSearch"
    /\ UNCHANGED violationsVars
    /\ lastArgs' = NoArgs
    /\ UNCHANGED <<intersections, loading, editDialogOpen, editData, autoRefresh,
                   view, interval, scheduled, pending, nEdits>>

\* Save Changes button of the dialog.
handleSave ==
    /\ view = "mounted"
    /\ editDialogOpen
    /\ intersections' = SaveList(intersections, editData)
    /\ editDialogOpen' = FALSE
    /\ lastOp' = "handleSave"
    /\ UNCHANGED violationsVars
    /\ UNCHANGED <<searchTerm, loading, editData, autoRefresh, view, interval, scheduled,
                   pending, nEdits, lastArgs>>

\* Cancel button and Dialog onClose: setEditDialogOpen(false)
CloseDialog ==
    /\ view = "mounted"
    /\ editDialogOpen
    /\ editDialogOpen' = FALSE
    /\ lastOp' = "CloseDialog"
    /\ UNCHANGED violationsVars
    /\ lastArgs' = NoArgs
    /\ UNCHANGED <<searchTerm, intersections, loading, editData, autoRefresh, view, interval,
                   scheduled, pending, nEdits>>

\* handlePhaseChange(phaseId, field, value) applied to the draft.
ApplyPhaseChange(phaseId, field, value) ==
    /\ editData' = PhaseChange(editData, phaseId, field, value)
    /\ nEdits' = nEdits + 1
    /\ lastOp' = "handlePhaseChange"
    /\ UNCHANGED violationsVars
    /\ lastArgs' = [NoArgs EXCEPT !.phaseId = phaseId, !.field = field, !.value = value]
    /\ UNCHANGED <<searchTerm, intersections, loading, editDialogOpen, autoRefresh, view,
                   interval, scheduled, pending>>

\* Duration Slider / TextField of a phase of the draft; both are disabled
\* unless the draft's status is active.
EditDuration(k, value) ==
    /\ view = "mounted"
    /\ editDialogOpen
    /\ nEdits < MaxEdits
    /\ editData.status = "active"
    /\ k \in 1..Len(editData.phases)
    /\ ApplyPhaseChange(editData.phases[k].id, "duration", value)

\* handleStatusChange(status) applied to the draft.
ApplyStatusChange(status) ==
    /\ editData' = StatusChange(editData, status)
    /\ nEdits' = nEdits + 1
    /\ lastOp' = "handleStatusChange"
    /\ UNCHANGED violationsVars
    /\ lastArgs' = [NoArgs EXCEPT !.value = status]
    /\ UNCHANGED <<searchTerm, intersections, loading, editDialogOpen, autoRefresh, view,
                   interval, scheduled, pending>>

\* Status Select of the dialog.
SelectStatus(status) ==
    /\ view = "mounted"
    /\ editDialogOpen
    /\ nEdits < MaxEdits
    /\ ApplyStatusChange(status)

Next ==
    \/ Mount
    \/ ToggleAutoRefresh
    \/ Tick
    \/ FetchDone
    \/ Unmount
    \/ \E i \in 1..4 : handleEdit(i)
    \/ handleSave
    \/ CloseDialog
    \/ \E k \in 1..3, v \in SliderValues \cup TextFieldValues : EditDuration(k, v)
    \/ \E s \in Status : SelectStatus(s)

\* The search box is explored on its own in SpecFilter; here it stays empty,
\* which shows every card to handleEdit.
Spec == Init /\ [][Next]_vars

-----------------------------------------------------------------------------
(* The handlers on arbitrary inputs: any draft (any status, any active      *)
(* flags, one to MaxPhases phases with distinct ids) against a committed    *)
(* list that may or may not hold the draft's id.                            *)

Min(a, b) == IF a < b THEN a ELSE b

FnPhaseIds   == <<"north-south", "east-west", "pedestrian", "left-turn">>
FnPhaseNames == <<"North-South", "East-West", "Pedestrian", "Left-Turn">>
FnDuration   == 30

\* Colours a drawn draft starts with: one colour on every phase, or green on
\* the active phases and red on the others as in the mock data.
Colorings(n, flags) ==
    { [i \in 1..n |-> c] : c \in Color }
        \cup { [i \in 1..n |-> IF flags[i] THEN "green" ELSE "red"] }

PhaseSeqs ==
    UNION { UNION { { [i \in 1..n |-> Phase(FnPhaseIds[i], FnPhaseNames[i], FnDuration,
                                            flags[i], cols[i])] :
                        cols \in Colorings(n, flags) } :
                    flags \in [1..n -> BOOLEAN] } :
            n \in 1..Min(MaxPhases, Len(FnPhaseIds)) }

\* (field, value) pairs handlePhaseChange is applied with.
FieldValues ==
    ({"duration"} \X (SliderValues \cup TextFieldValues))
        \cup ({"active"} \X BOOLEAN) \cup ({"color"} \X Color)

FnInit ==
    /\ \E n \in 0..Min(MaxList, Len(mockIntersections)) :
          intersections = SubSeq(mockIntersections, 1, n)
    /\ \E j \in 1..Min(MaxList + 1, Len(mockIntersections)), s \in Status, ps \in PhaseSeqs :
          editData = [mockIntersections[j] EXCEPT !.status = s, !.phases = ps]
    /\ loading = FALSE
    /\ editDialogOpen = TRUE
    /\ autoRefresh = FALSE
    /\ searchTerm = << >>
    /\ view = "mounted"
    /\ interval = "undefined"
    /\ scheduled = 0
    /\ pending = 0
    /\ nEdits = 0
    /\ lastOp = "input"
    /\ lastArgs = NoArgs
    /\ ViolationsConstructed

FnPhaseChange ==
    /\ nEdits = 0
    /\ \E k \in 1..Len(FnPhaseIds), fv \in FieldValues :
          ApplyPhaseChange(FnPhaseIds[k], fv[1], fv[2])

FnStatusChange ==
    /\ nEdits = 0
    /\ \E s \in Status : ApplyStatusChange(s)

FnSave == handleSave

FnNext == FnPhaseChange \/ FnStatusChange \/ FnSave

SpecFn == FnInit /\ [][FnNext]_vars

-----------------------------------------------------------------------------
(* The search filter on any sub-list of the mock data and any search string *)

SubLists ==
    { LET Test(i) == i \in S
          idx == SelectSeq(<<1, 2, 3, 4>>, Test)
      IN  [k \in 1..Len(idx) |-> mockIntersections[idx[k]]] : S \in SUBSET (1..4) }

FilterInit ==
    /\ intersections \in SubLists
    /\ loading = FALSE
    /\ editDialogOpen = FALSE
    /\ editData = NullData
    /\ autoRefresh = FALSE
    /\ searchTerm = << >>
    /\ view = "mounted"
    /\ interval = "undefined"
    /\ scheduled = 0
    /\ pending = 0
    /\ nEdits = 0
    /\ lastOp = "input"
    /\ lastArgs = NoArgs
    /\ ViolationsConstructed

FilterSearch == \E term \in SearchTerms : handleSearch(term)

FilterNext == FilterSearch

SpecFilter == FilterInit /\ [][FilterNext]_vars


-----------------------------------------------------------------------------
(* The cycle time of a draft of any mock intersection with any durations,   *)
(* before and after one duration edit.                                      *)

\* Durations a drawn draft starts with, from the mock data.
CycleDurations == {20, 40, 45, 60}

CycleInit ==
    /\ intersections = mockIntersections
    /\ \E j \in 1..Len(mockIntersections) :
          \E ds \in [1..Len(mockIntersections[j].phases) -> CycleDurations] :
              editData = [mockIntersections[j] EXCEPT
                            !.status = "active",
                            !.phases = [k \in 1..Len(ds) |->
                                          [mockIntersections[j].phases[k] EXCEPT
                                              !.duration = ds[k]]]]
    /\ loading = FALSE
    /\ editDialogOpen = TRUE
    /\ autoRefresh = FALSE
    /\ searchTerm = << >>
    /\ view = "mounted"
    /\ interval = "undefined"
    /\ scheduled = 0
    /\ pending = 0
    /\ nEdits = 0
    /\ lastOp = "input"
    /\ lastArgs = NoArgs
    /\ ViolationsConstructed

CycleEdit ==
    /\ nEdits = 0
    /\ \E k \in 1..3, v \in SliderValues \cup TextFieldValues : EditDuration(k, v)

CycleNext == CycleEdit

SpecCycle == CycleInit /\ [][CycleNext]_vars

-----------------------------------------------------------------------------
(* The view's fetches under fair execution of the timer callbacks: the     *)
(* lifecycle, the refresh timer, and the dialog opened, saved and closed   *)
(* while fetches are outstanding.                                           *)

LiveNext ==
    \/ Mount
    \/ ToggleAutoRefresh
    \/ Tick
    \/ FetchDone
    \/ Unmount
    \/ \E i \in 1..4 : handleEdit(i)
    \/ handleSave
    \/ CloseDialog

\* A setTimeout callback that is due runs: the event loop never leaves a
\* pending callback waiting forever.  Nothing obliges the user to toggle,
\* the recurring timer is not needed for the fetch to end, and the view may
\* be torn down at any time.
SpecLive == Init /\ [][LiveNext]_vars /\ WF_vars(FetchDone)

-----------------------------------------------------------------------------
(* The Violations page: its fetch effect and its event handlers *)

\* Body of the effect, which runs after the first render and after every
\* change of page, rowsPerPage, searchTerm or filters:
\* setLoading(true); setTimeout(..., 500)
FetchViolations ==
    /\ violationsLoading' = TRUE
    /\ violationsPending' = violationsPending + 1

\* First run of useEffect after the first render.
ViolationsMount ==
    /\ violationsView = "init"
    /\ violationsView' = "mounted"
    /\ FetchViolations
    /\ lastOp' = "Violations.mount"
    /\ lastArgs' = NoArgs
    /\ UNCHANGED <<violations, page, rowsPerPage, violationsSearchTerm, filters, served>>
    /\ UNCHANGED trafficVars

\* The setTimeout callback of fetchViolations runs:
\* setViolations(mockViolations); setLoading(false)
ViolationsFetchDone ==
    /\ violationsPending > 0
    /\ violationsPending' = violationsPending - 1
    /\ violations' = ViolationRows(served)
    /\ violationsLoading' = FALSE
    /\ lastOp' = "Violations.fetchDone"
    /\ lastArgs' = NoArgs
    /\ UNCHANGED <<page, rowsPerPage, violationsSearchTerm, filters, served, violationsView>>
    /\ UNCHANGED trafficVars

\* TablePagination with count = filteredViolations.length offers newPage:
\* a page that exists, other than the one shown.
Offered(newPage) ==
    /\ newPage >= 0
    /\ newPage # page
    /\ newPage * rowsPerPage < Len(filteredViolations)

\* handleChangePage(event, newPage): setPage(newPage)
handleChangePage(newPage) ==
    /\ violationsView = "mounted"
    /\ violationsPending < MaxPending
    /\ Offered(newPage)
    /\ page' = newPage
    /\ FetchViolations
    /\ lastOp' = "handleChangePage"
    /\ lastArgs' = NoArgs
    /\ UNCHANGED <<violations, rowsPerPage, violationsSearchTerm, filters, served,
                   violationsView>>
    /\ UNCHANGED trafficVars

\* handleChangeRowsPerPage that keeps the page.
handleChangeRowsPerPageKeepsPage(value) ==
    /\ violationsView = "mounted"
    /\ violationsPending < MaxPending
    /\ parseInt(value) # rowsPerPage
    /\ rowsPerPage' = parseInt(value)
    /\ FetchViolations
    /\ lastOp' = "handleChangeRowsPerPage"
    /\ lastArgs' = NoArgs
    /\ UNCHANGED <<violations, page, violationsSearchTerm, filters, served, violationsView>>
    /\ UNCHANGED trafficVars

\* handleChangeRowsPerPage(event):
\* setRowsPerPage(parseInt(event.target.value, 10)); setPage(0)
\* The select reports a change only for an option other than the one shown.
handleChangeRowsPerPage(value) ==
    /\ violationsView = "mounted"
    /\ violationsPending < MaxPending
    /\ parseInt(value) # rowsPerPage
    /\ rowsPerPage' = parseInt(value)
    /\ page' = 0
    /\ FetchViolations
    /\ lastOp' = "handleChangeRowsPerPage"
    /\ lastArgs' = NoArgs
    /\ UNCHANGED <<violations, violationsSearchTerm, filters, served, violationsView>>
    /\ UNCHANGED trafficVars

\* handleSearch(event) of the Violations page:
\* setSearchTerm(event.target.value); setPage(0)
handleSearchViolations(term) ==
    /\ violationsView = "mounted"
    /\ violationsPending < MaxPending
    /\ term # violationsSearchTerm
    /\ violationsSearchTerm' = term
    /\ page' = 0
    /\ FetchViolations
    /\ lastOp' = "Violations.handleSearch"
    /\ lastArgs' = NoArgs
    /\ UNCHANGED <<violations, rowsPerPage, filters, served, violationsView>>
    /\ UNCHANGED trafficVars

\* handleFilterChange(filterType, value):
\* setFilters(prev => ({ ...prev, [filterType]: value })); setPage(0)
handleFilterChange(filterType, value) ==
    /\ violationsView = "mounted"
    /\ violationsPending < MaxPending
    /\ value # filters[filterType]
    /\ filters' = [filters EXCEPT ![filterType] = value]
    /\ page' = 0
    /\ FetchViolations
    /\ lastOp' = "handleFilterChange"
    /\ lastArgs' = [NoArgs EXCEPT !.field = filterType, !.value = value]
    /\ UNCHANGED <<violations, rowsPerPage, violationsSearchTerm, served, violationsView>>
    /\ UNCHANGED trafficVars

\* The page after construction, with a fetch that delivers the mock rows or
\* any response of up to MaxRows rows.
ViolationsInit ==
    /\ intersections = << >>
    /\ loading = TRUE
    /\ editDialogOpen = FALSE
    /\ editData = NullData
    /\ autoRefresh = TRUE
    /\ searchTerm = << >>
    /\ view = "init"
    /\ interval = "undefined"
    /\ scheduled = 0
    /\ pending = 0
    /\ nEdits = 0
    /\ lastOp = "Violations.construct"
    /\ lastArgs = NoArgs
    /\ ViolationsUseState
    /\ served \in 0..MaxRows

ViolationsNext ==
    \/ ViolationsMount
    \/ ViolationsFetchDone
    \/ \E newPage \in 0..(MaxRows \div 5) : handleChangePage(newPage)
    \/ \E o \in 1..Len(rowsPerPageOptions) : handleChangeRowsPerPage(rowsPerPageOptions[o])
    \/ \E term \in ViolationSearchTerms : handleSearchViolations(term)
    \/ \E value \in violationTypes : handleFilterChange("type", value)
    \/ \E value \in statusOptions : handleFilterChange("status", value)

SpecViolations == ViolationsInit /\ [][ViolationsNext]_vars

-----------------------------------------------------------------------------
(* Properties *)

Ids(list) == {list[i].id : i \in 1..Len(list)}

\* Every phase sequence the state holds: the draft's and each committed
\* intersection's (the ones the cards derive their display from).
ShownPhaseSeqs ==
    {editData.phases} \cup {intersections[i].phases : i \in 1..Len(intersections)}

\* ps[i] is the first phase of ps flagged active.
FirstActive(ps, i) == ps[i].active /\ \A j \in 1..(i - 1) : ~ps[j].active

NoneActive(ps) == \A i \in 1..Len(ps) : ~ps[i].active

\* The colour the spec derives from (status, active).
DerivedColor(status, active) ==
    CASE status = "active" /\ active  -> "green"
      [] status = "active" /\ ~active -> "red"
      [] OTHER                        -> "yellow"

\* C1: once the initial load has completed, the committed list changes only
\* by a commit (Save) of the draft: no refresh tick, refresh completion or
\* auto-refresh toggle changes it.
CommittedChangesOnlyBySave ==
    [][(view = "mounted" /\ intersections # << >> /\ intersections' # intersections)
          => lastOp' = "handleSave"]_vars

\* C2: handleSave keeps the length of the list and the order of its ids,
\* replaces the entry whose id is the draft's by the draft and leaves every
\* other entry unchanged.
SaveReplacesOnlyMatching ==
    [][lastOp' = "handleSave" =>
          /\ Len(intersections') = Len(intersections)
          /\ \A i \in 1..Len(intersections) :
                /\ intersections'[i].id = intersections[i].id
                /\ intersections[i].id = editData.id => intersections'[i] = editData
                /\ intersections[i].id # editData.id => intersections'[i] = intersections[i]
      ]_vars

\* C2 witness: a save replaced one entry of a list of at least two by a draft
\* that differs from the entry it replaced, next to an untouched entry.
SaveReplacedOne ==
    /\ lastOp = "handleSave"
    /\ Len(intersections) >= 2
    /\ \E i, j \in 1..Len(intersections) :
          /\ i # j
          /\ intersections[i] = editData
          /\ intersections[i] # mockIntersections[i]
          /\ intersections[j] = mockIntersections[j]

\* C3: handleStatusChange sets the draft's status to the new status and every
\* phase's colour to the colour derived from (new status, phase.active),
\* whatever the previous status and colours were.
StatusChangeRecolors ==
    [][lastOp' = "handleStatusChange" =>
          /\ editData'.status = lastArgs'.value
          /\ Len(editData'.phases) = Len(editData.phases)
          /\ \A k \in 1..Len(editData.phases) :
                editData'.phases[k].color =
                    DerivedColor(lastArgs'.value, editData.phases[k].active)
      ]_vars

\* C3 witness: a status change to maintenance turned an active phase yellow,
\* and one to active gave green and red to an active and an inactive phase.
StatusChangeRecolored ==
    /\ lastOp = "handleStatusChange"
    /\ Len(editData.phases) >= 2
    /\ \/ /\ editData.status = "maintenance"
          /\ editData.phases[1].active
          /\ \A k \in 1..Len(editData.phases) : editData.phases[k].color = "yellow"
       \/ /\ editData.status = "active"
          /\ editData.phases[1].active /\ editData.phases[1].color = "green"
          /\ ~editData.phases[2].active /\ editData.phases[2].color = "red"

\* C4: on every non-empty phase sequence getActivePhase returns the first
\* phase flagged active, the first phase of the sequence when none is
\* flagged, and always a phase of the sequence.
ActivePhaseIsFirstActiveOrFirst ==
    \A ps \in ShownPhaseSeqs :
        Len(ps) > 0 =>
            /\ \A i \in 1..Len(ps) : FirstActive(ps, i) => getActivePhase(ps) = ps[i]
            /\ NoneActive(ps) => getActivePhase(ps) = ps[1]
            /\ \E i \in 1..Len(ps) : getActivePhase(ps) = ps[i]

\* C4 witness: a draft with two phases flagged active, the first of them not
\* at the head of the sequence, and one with no phase flagged active.
ActivePhaseSkipsInactiveHead ==
    /\ Len(editData.phases) = 3
    /\ ~editData.phases[1].active
    /\ editData.phases[2].active
    /\ editData.phases[3].active
    /\ getActivePhase(editData.phases) = editData.phases[2]

\* C5: on every non-empty phase sequence with i the 0-based index of the
\* first active phase, getNextPhase returns the phase at (i + 1) mod length;
\* with no phase flagged active it returns the phase at index 0.
NextPhaseIsCyclicSuccessor ==
    \A ps \in ShownPhaseSeqs :
        Len(ps) > 0 =>
            /\ \A i \in 1..Len(ps) :
                  FirstActive(ps, i) => getNextPhase(ps) = ps[(i % Len(ps)) + 1]
            /\ NoneActive(ps) => getNextPhase(ps) = ps[1]

\* C5 witness: three phases of which only the last is active: the next
\* phase wraps around to the first.
NextPhaseWrapsAround ==
    /\ Len(editData.phases) = 3
    /\ ~editData.phases[1].active
    /\ ~editData.phases[2].active
    /\ editData.phases[3].active
    /\ getNextPhase(editData.phases) = editData.phases[1]

\* C6: for every committed intersection with at least two phases the
\* displayed next phase is the cyclic successor of the displayed current
\* phase, hence a different phase.
NextIsSuccessorOfCurrent ==
    \A i \in 1..Len(intersections) :
        LET ps == intersections[i].phases
        IN  Len(ps) >= 2 =>
                /\ getNextPhase(ps) # getActivePhase(ps)
                /\ \E k \in 1..Len(ps) :
                      /\ getActivePhase(ps) = ps[k]
                      /\ getNextPhase(ps) = ps[(k % Len(ps)) + 1]

\* C7: handlePhaseChange(phaseId, field, value) sets the named field of the
\* phase with that id to value and keeps its other fields; every other
\* phase, the order and number of phases and the draft's other fields are
\* unchanged.
PhaseFields == {"id", "name", "duration", "active", "color"}

PhaseChangeFrame ==
    [][lastOp' = "handlePhaseChange" =>
          LET a == lastArgs'
          IN  /\ Len(editData'.phases) = Len(editData.phases)
              /\ \A k \in 1..Len(editData.phases) :
                    IF editData.phases[k].id = a.phaseId
                    THEN /\ editData'.phases[k][a.field] = a.value
                         /\ \A f \in PhaseFields \ {a.field} :
                               editData'.phases[k][f] = editData.phases[k][f]
                    ELSE editData'.phases[k] = editData.phases[k]
              /\ [editData' EXCEPT !.phases = << >>] = [editData EXCEPT !.phases = << >>]
      ]_vars

\* C7 witness: a duration edit changed one phase of a draft of several and
\* left another phase with its duration.
PhaseChangeEditedOne ==
    /\ lastOp = "handlePhaseChange"
    /\ lastArgs.field = "duration"
    /\ lastArgs.value # FnDuration
    /\ \E k, m \in 1..Len(editData.phases) :
          /\ editData.phases[k].id = lastArgs.phaseId
          /\ editData.phases[k].duration = lastArgs.value
          /\ editData.phases[m].duration = FnDuration

\* C8: a phase edit whose phaseId matches no phase of the draft leaves the
\* draft unchanged, and a commit whose draft id matches no entry of the
\* committed list leaves the list unchanged (no error, no entry added).
UnknownIdIsNoOp ==
    [][/\ (lastOp' = "handlePhaseChange" /\ lastArgs'.phaseId \notin Ids(editData.phases))
            => editData' = editData
       /\ (lastOp' = "handleSave" /\ editData.id \notin Ids(intersections))
            => intersections' = intersections
      ]_vars

\* C8 witness: after a phase edit with an id the draft does not hold, a
\* commit of a draft whose id a non-empty committed list does not hold.
UnknownIdsApplied ==
    /\ lastOp = "handleSave"
    /\ nEdits = 1
    /\ lastArgs.field = "duration"
    /\ lastArgs.phaseId \notin Ids(editData.phases)
    /\ Len(intersections) >= 1
    /\ editData.id \notin Ids(intersections)

\* C9: at most one recurring refresh timer is ever scheduled: exactly one
\* while the view is mounted with auto-refresh on, none while auto-refresh
\* is off or after the view is torn down.
OneRefreshTimer ==
    /\ scheduled \in {0, 1}
    /\ (view = "mounted" /\ autoRefresh) => scheduled = 1
    /\ (view = "unmounted" \/ ~autoRefresh) => scheduled = 0

\* C9 witness: auto-refresh was switched off and on again, and one timer is
\* scheduled.
TimerRestarted ==
    /\ lastOp = "ToggleAutoRefresh"
    /\ autoRefresh
    /\ view = "mounted"
    /\ scheduled = 1

\* C10: once the view is torn down or auto-refresh is switched off, no
\* refresh callback (recurring tick or pending fetch completion) runs and
\* writes the intersection list or the loading flag.
NoRefreshWriteAfterStop ==
    [][((view = "unmounted" \/ (view = "mounted" /\ ~autoRefresh))
            /\ lastOp' \in {"Tick", "FetchDone"})
          => (intersections' = intersections /\ loading' = loading)]_vars

\* Characters a and b are the same up to case.
SameLetter(a, b) ==
    a = b \/ \E u \in 1..Len(UpperCase) : {a, b} = {UpperCase[u], LowerCase[u]}

\* str contains sub as a case-insensitive substring.
ContainsIgnoringCase(str, sub) ==
    \E off \in 0..(Len(str) - Len(sub)) :
        \A k \in 1..Len(sub) : SameLetter(str[off + k], sub[k])

\* Positions of the committed list the search string selects.
Selected ==
    {i \in 1..Len(intersections) :
        \/ ContainsIgnoringCase(Chars[intersections[i].name], searchTerm)
        \/ ContainsIgnoringCase(Chars[intersections[i].id], searchTerm)}

\* C11: the filtered list holds exactly the intersections whose name or id
\* contains the search string as a case-insensitive substring, in their
\* original order; the empty search string retains every intersection.
FilterKeepsExactlyMatches ==
    /\ Len(filteredIntersections) = Cardinality(Selected)
    /\ \A k \in 1..Len(filteredIntersections) :
          \E i \in Selected :
              /\ Cardinality({j \in Selected : j < i}) = k - 1
              /\ filteredIntersections[k] = intersections[i]
    /\ searchTerm = << >> => filteredIntersections = intersections

\* C11 witness: "INDIRA" typed against a list holding both MG Road & Brigade
\* Road and Indiranagar 100ft Road keeps exactly the second.
FilterFoundIndiranagar ==
    /\ lastOp = "handleSearch"
    /\ searchTerm = <<"I", "N", "D", "I", "R", "A">>
    /\ Len(intersections) >= 2
    /\ intersections[1] = mockIntersections[1]
    /\ intersections[2] = mockIntersections[2]
    /\ filteredIntersections = <<mockIntersections[2]>>

\* Sum of the durations of the phases of ps at the positions in S.
RECURSIVE SumOver(_, _)
SumOver(ps, S) ==
    IF S = {} THEN 0
    ELSE LET i == CHOOSE i \in S : TRUE
         IN  ps[i].duration + SumOver(ps, S \ {i})

\* C12: getTotalCycleTime is the sum of the durations of all phases (105 for
\* durations 45, 40, 20) and is the same for every reordering of the
\* sequence.
CycleTimeIsOrderFreeSum ==
    \A ps \in ShownPhaseSeqs :
        /\ getTotalCycleTime(ps) = SumOver(ps, 1..Len(ps))
        /\ \A perm \in Permutations(1..Len(ps)) :
              getTotalCycleTime([i \in 1..Len(ps) |-> ps[perm[i]]]) = getTotalCycleTime(ps)
        /\ [i \in 1..Len(ps) |-> ps[i].duration] = <<45, 40, 20>>
              => getTotalCycleTime(ps) = 105

\* C12 witness: the draft of int-001 after its second phase was set to 5 s:
\* the dialog shows a total of 70 s.
CycleTimeOfEditedDraft ==
    /\ lastOp = "handlePhaseChange"
    /\ [i \in 1..Len(editData.phases) |-> editData.phases[i].duration] = <<45, 5, 20>>
    /\ getTotalCycleTime(editData.phases) = 70
    /\ \E i \in 1..Len(intersections) :
          getTotalCycleTime(intersections[i].phases) = 105

\* The committed intersections and, once the dialog was opened, the draft.
ShownIntersections ==
    {intersections[i] : i \in 1..Len(intersections)}
        \cup (IF editData = NullData THEN {} ELSE {editData})

IdSeq(list) == [i \in 1..Len(list) |-> list[i].id]

ActiveFlags(ps) == [k \in 1..Len(ps) |-> ps[k].active]

\* C13: a status is always active, inactive or maintenance; from each status
\* each of the three can be entered by one selection in the edit dialog; and
\* no intersection's status changes without a user selection: the draft's
\* only when a status is selected or the dialog is opened on a card, a
\* committed one only when the user saves.
StatusChangesOnlyBySelection ==
    [][/\ \A int \in ShownIntersections : int.status \in Status
       /\ (view = "mounted" /\ editDialogOpen /\ nEdits < MaxEdits)
            => \A s \in Status :
                  ENABLED SelectStatus(s) /\ StatusChange(editData, s).status = s
       /\ editData'.status # editData.status
            => lastOp' \in {"handleStatusChange", "handleEdit"}
       /\ \A i \in 1..Len(intersections) :
            (Len(intersections') = Len(intersections)
                /\ intersections'[i].status # intersections[i].status)
            => lastOp' = "handleSave"
      ]_vars

\* C14: every phase of the draft and of every committed intersection has a
\* positive duration within the editing bound of 5 to 120 seconds, whatever
\* slider and number-field edits and commits were applied.
DurationsWithinBound ==
    \A ps \in ShownPhaseSeqs :
        \A k \in 1..Len(ps) : ps[k].duration \in 5..120

\* C15: every intersection (draft or committed) whose status is active has
\* exactly one phase flagged active.
OneActivePhaseWhenActive ==
    \A int \in ShownIntersections :
        int.status = "active" =>
            Cardinality({k \in 1..Len(int.phases) : int.phases[k].active}) = 1

\* C16: after the initial load the committed list holds the intersections of
\* the mock data, same ids in the same order, and each of them and the
\* draft has its original non-empty sequence of phase ids.
NothingDeleted ==
    /\ intersections # << >> =>
          /\ IdSeq(intersections) = IdSeq(mockIntersections)
          /\ \A i \in 1..Len(intersections) :
                /\ intersections[i].phases # << >>
                /\ IdSeq(intersections[i].phases) = IdSeq(mockIntersections[i].phases)
    /\ editData # NullData =>
          \E j \in 1..Len(mockIntersections) :
              /\ editData.id = mockIntersections[j].id
              /\ editData.phases # << >>
              /\ IdSeq(editData.phases) = IdSeq(mockIntersections[j].phases)

\* C16 witness: two edits were saved into the list, which differs from the
\* mock data and still has every intersection and phase.
EditsSavedAllKept ==
    /\ lastOp = "handleSave"
    /\ nEdits >= 2
    /\ intersections # mockIntersections
    /\ Len(intersections) = Len(mockIntersections)
    /\ \E i \in 1..Len(intersections) :
          /\ intersections[i] = editData
          /\ Len(editData.phases) = Len(mockIntersections[i].phases)

\* C17: every intersection (draft or committed) has at most one phase flagged
\* active, and its active flags are those of the mock data: no operation of
\* the view changes a flag.
AtMostOneActivePhase ==
    \A int \in ShownIntersections :
        /\ Cardinality({k \in 1..Len(int.phases) : int.phases[k].active}) <= 1
        /\ \E j \in 1..Len(mockIntersections) :
              /\ int.id = mockIntersections[j].id
              /\ ActiveFlags(int.phases) = ActiveFlags(mockIntersections[j].phases)

\* C17 witness: the draft of int-004 switched to active: its second phase is
\* still the only one flagged, now green.
ActivatedKeepsFlags ==
    /\ lastOp = "handleStatusChange"
    /\ editData.id = "int-004"
    /\ editData.status = "active"
    /\ ~editData.phases[1].active /\ editData.phases[1].color = "red"
    /\ editData.phases[2].active /\ editData.phases[2].color = "green"

\* C18: handleEdit sets the draft to the selected committed intersection and
\* opens the dialog, also when an earlier draft was discarded; phase edits,
\* status changes and Cancel or close leave the committed list unchanged.
DraftIsolated ==
    [][/\ lastOp' = "handleEdit"
            => /\ editData' = intersections[lastArgs'.index]
               /\ editDialogOpen'
               /\ intersections' = intersections
       /\ lastOp' \in {"handlePhaseChange", "handleStatusChange", "CloseDialog"}
            => intersections' = intersections
      ]_vars

\* C18 witness: the dialog is opened again after edits that were never
\* saved: the list is the mock data and the draft is the committed entry.
ReopenedFromCommitted ==
    /\ lastOp = "handleEdit"
    /\ nEdits >= 1
    /\ editDialogOpen
    /\ intersections = mockIntersections
    /\ editData = mockIntersections[lastArgs.index]

\* C19: for every committed intersection every phase's colour is the colour
\* derived from (status, active).
CommittedColorsDerived ==
    \A i \in 1..Len(intersections) :
        \A k \in 1..Len(intersections[i].phases) :
            intersections[i].phases[k].color =
                DerivedColor(intersections[i].status, intersections[i].phases[k].active)

\* C20: handleStatusChange changes only the draft's status and its phases'
\* colours: the draft's id, name, timestamp, vehicle count and wait time,
\* every phase's id, name, duration, active flag and position, and the
\* committed list are unchanged.
StatusChangeFrame ==
    [][lastOp' = "handleStatusChange" =>
          /\ \A f \in {"id", "name", "lastUpdated", "vehicleCount", "avgWaitTime"} :
                editData'[f] = editData[f]
          /\ DOMAIN editData' = DOMAIN editData
          /\ Len(editData'.phases) = Len(editData.phases)
          /\ \A k \in 1..Len(editData.phases) :
                /\ DOMAIN editData'.phases[k] = DOMAIN editData.phases[k]
                /\ \A f \in {"id", "name", "duration", "active"} :
                      editData'.phases[k][f] = editData.phases[k][f]
          /\ intersections' = intersections
      ]_vars

\* C20 witness: a three-phase draft of int-001 switched to inactive next to
\* a committed int-001 that still is the mock entry.
StatusChangedDraftOnly ==
    /\ lastOp = "handleStatusChange"
    /\ editData.status = "inactive"
    /\ editData.id = "int-001"
    /\ editData.lastUpdated = mockIntersections[1].lastUpdated
    /\ Len(editData.phases) = 3
    /\ \A k \in 1..3 : editData.phases[k].id = FnPhaseIds[k]
    /\ Len(intersections) >= 1
    /\ intersections[1] = mockIntersections[1]

\* C21: whenever the mounted view is loading, it later is not loading and
\* shows a populated list, unless the view is torn down first; under fair
\* execution of the fetch completions, however toggles and ticks interleave.
LoadingAlwaysEnds ==
    (view = "mounted" /\ loading)
        ~> (view # "mounted" \/ (~loading /\ intersections # << >>))

\* C21 witness: auto-refresh was switched off, which started a fetch, and
\* the last outstanding completion has run: the mounted view is not loading
\* and shows the mock list.
LoadingEndedAfterToggle ==
    /\ lastOp = "FetchDone"
    /\ view = "mounted"
    /\ ~autoRefresh
    /\ pending = 0
    /\ ~loading
    /\ intersections = mockIntersections

\* Whether a license plate or location contains a typed string as a
\* case-insensitive substring, tabulated.
ContainsTyped ==
    [str \in {mockViolations[k].licensePlate : k \in 1..Len(mockViolations)}
                \cup {mockViolations[k].location : k \in 1..Len(mockViolations)},
     term \in ViolationSearchTerms |->
        ContainsIgnoringCase(Chars[str], term)] @@ << >>

\* Positions of the fetched rows that the search string and both select
\* filters let through.
SelectedViolations ==
    {i \in 1..Len(violations) :
        /\ \/ ContainsTyped[violations[i].licensePlate, violationsSearchTerm]
           \/ ContainsTyped[violations[i].location, violationsSearchTerm]
        /\ filters.type = "all" \/ filters.type = violations[i].type
        /\ filters.status = "all" \/ filters.status = violations[i].status}

\* C22: the filtered violations are exactly the rows whose license plate or
\* location contains the search string as a case-insensitive substring,
\* whose type the type filter admits ('all' or equal) and whose status the
\* status filter admits ('all' or equal), in their original order.
FilterKeepsExactlyAdmittedViolations ==
    /\ Len(filteredViolations) = Cardinality(SelectedViolations)
    /\ \A k \in 1..Len(filteredViolations) :
          \E i \in SelectedViolations :
              /\ Cardinality({j \in SelectedViolations : j < i}) = k - 1
              /\ filteredViolations[k] = violations[i]

\* C22 witness: on the mock rows, "0ft" matches the locations of rows 3 and
\* 5 and the status filter 'processed' admits rows 2 and 5: row 5 alone is
\* kept.
FilterFoundProcessedKoramangala ==
    /\ violations = mockViolations
    /\ violationsSearchTerm = <<"0", "f", "t">>
    /\ filters = [type |-> "all", status |-> "processed"]
    /\ filteredViolations = << mockViolations[5] >>

\* C23: every change of the search string, of a filter or of rowsPerPage
\* leaves the page at 0, handleChangePage leaves the search string, the
\* filters and rowsPerPage as they were, and after every step the page is 0
\* or page * rowsPerPage is less than the number of filtered violations;
\* the paginator offering only pages that exist.
PageStaysInRange ==
    [][/\ (\/ violationsSearchTerm' # violationsSearchTerm
           \/ filters' # filters
           \/ rowsPerPage' # rowsPerPage) => page' = 0
       /\ lastOp' = "handleChangePage" =>
             /\ page' # page
             /\ violationsSearchTerm' = violationsSearchTerm
             /\ filters' = filters
             /\ rowsPerPage' = rowsPerPage
       /\ page' = 0 \/ page' * rowsPerPage' < Len(filteredViolations')
      ]_vars

\* C23 witness: with eleven rows fetched and five rows per page, the third
\* page is shown.
ThirdPageShown ==
    /\ lastOp = "handleChangePage"
    /\ page = 2
    /\ rowsPerPage = 5
    /\ Len(filteredViolations) = 11

====
